---- MODULE Spec2Model ----
(***************************************************************************)
(* Power-line inspection bot: the debounce state machine of                *)
(* src/state/state_machine.py (DebounceState) and the per-frame pipeline   *)
(* of src/app.py (HazardStateMachine and main).                            *)
(*                                                                         *)
(* The two are separate programs: app.py never imports DebounceState.  A   *)
(* behaviour is either a client driving one DebounceState object           *)
(* (SpecDebounce) or one run of app.py's main (SpecApp); Spec is the union. *)
(***************************************************************************)
EXTENDS Integers, Sequences, FiniteSets, TLC

VARIABLES
    ds,         \* the DebounceState object (its fields), or NoObject
    ds_args,    \* the arguments its constructor was called with
    ds_error,   \* exception raised by the last DebounceState call, or "none"
    ds_ret,     \* value returned by the last DebounceState call, or "none"
    ds_hist,    \* arguments of the update calls since construction / last reset
    ds_base,    \* how the current run of updates began (constructor or reset)
    pc,             \* where main of app.py is ("off": this is no run of app.py)
    args,           \* main: the parsed command line (and the state of the weights file)
    exit_code,      \* main: exit status once main has raised or exited, or NoExit
    state_machine,  \* main: the HazardStateMachine object (its fields)
    frame_count,    \* main: frame_count
    detections,     \* main: detections of the current frame
    state,          \* main: state returned by state_machine.update
    servo_angle,    \* main: servo_angle returned by it, in 1/AngleDen degree
    empty_frames,   \* history: consecutive frames with no detections processed so far
    inference,      \* main: what the detector did on the current frame
    detector_frames,\* history: the frame_count values on which main called the detector
    updates,        \* history: number of state_machine.update calls
    writer,         \* main: the recorder (cv2.VideoWriter), "none" without --record
    recorded,       \* history: number of frames written to the recorder
    log_rows,       \* history: number of event rows written to the CSV log
    release_calls,  \* history: number of video.release() calls
    geo,            \* the last pixel_to_angle call (arguments and result)
    geo_prev,       \* the pixel_to_angle call before it
    yolo,           \* the YOLOHazard object (its fields)
    yolo_call,      \* history: the last detect call made on it and how it ended
    cam,            \* the VideoSource object (its fields and its backends)
    cam_call,       \* history: the last call made on it, how it ended, the call before
    log,            \* the LogWriter object, the CSV file at its path, the calls counted
    log_calls,      \* history: the row_data of each write_event call, how the last ended
    gpio,           \* gpio_io: the servo_pwm global, the pins, the last call
    cv,             \* classic_cv: DEFAULT_PARAMS and the frame handed to the detector
    cv_call         \* history: the last detect_hazards_classic call; the one before it
                    \* if it had the same params

dsvars == <<ds, ds_args, ds_error, ds_ret, ds_hist, ds_base>>
appvars == <<pc, args, exit_code, state_machine, frame_count, detections, state,
             servo_angle, empty_frames, inference, detector_frames, updates,
             writer, recorded, log_rows, release_calls>>
geovars == <<geo, geo_prev>>
yolovars == <<yolo, yolo_call>>
camvars == <<cam, cam_call>>
logvars == <<log, log_calls>>
cvvars == <<cv, cv_call>>
libvars == <<geovars, yolovars, camvars, logvars, gpio, cvvars>>
vars == <<dsvars, appvars, libvars>>

(***************************************************************************)
(* Bounds of the model.                                                    *)
(***************************************************************************)
MaxEnter == 3       \* largest safe_to_hazard_frames argument tried
MaxExit == 5        \* largest hazard_to_safe_frames argument tried
MaxHist == 6        \* update calls between two resets
MaxFrames == 5      \* frames read by one run of main
MaxDebounce == 3    \* largest debounce_frames argument tried
MaxEvery == 3       \* largest --yolo-every tried

\* the value of a name bound to no object (the constructor raised)
NoObject == [current_state |-> "none"]
States == {"SAFE", "HAZARD"}

(***************************************************************************)
(* DebounceState                                                           *)
(***************************************************************************)
DefaultEnter == 3   \* safe_to_hazard_frames: int = 3
DefaultExit == 5    \* hazard_to_safe_frames: int = 5

Max(a, b) == IF a >= b THEN a ELSE b
Min(a, b) == IF a <= b THEN a ELSE b

\* mutant of ClampThreshold: the argument is stored as given
ClampThreshold_Unclamped(n) == n

\* max(1, n) of __init__
ClampThreshold(n) == Max(1, n)

\* mutant of DebounceNew: a threshold <= 0 is rejected like a bad initial state
DebounceNew_Strict(initial, safe_to_hazard_frames, hazard_to_safe_frames) ==
    IF initial \notin States \/ safe_to_hazard_frames <= 0 \/ hazard_to_safe_frames <= 0
    THEN NoObject
    ELSE [current_state |-> initial,
          safe_to_hazard_frames |-> safe_to_hazard_frames,
          hazard_to_safe_frames |-> hazard_to_safe_frames,
          hazard_counter |-> 0,
          safe_counter |-> 0]

\* DebounceState.__init__: the object, or NoObject when it raises ValueError
DebounceNew(initial, safe_to_hazard_frames, hazard_to_safe_frames) ==
    IF initial \notin States
    THEN NoObject
    ELSE [current_state |-> initial,
          safe_to_hazard_frames |-> ClampThreshold(safe_to_hazard_frames),
          hazard_to_safe_frames |-> ClampThreshold(hazard_to_safe_frames),
          hazard_counter |-> 0,
          safe_counter |-> 0]

\* mutant of UpdateFn: the opposite counter is not cleared
UpdateFn_NoClear(d, is_hazard_frame) ==
    IF is_hazard_frame
    THEN LET c == d.hazard_counter + 1
         IN [d EXCEPT !.hazard_counter = c,
                      !.current_state =
                          IF d.current_state = "SAFE" /\ c >= d.safe_to_hazard_frames
                          THEN "HAZARD" ELSE @]
    ELSE LET c == d.safe_counter + 1
         IN [d EXCEPT !.safe_counter = c,
                      !.current_state =
                          IF d.current_state = "HAZARD" /\ c >= d.hazard_to_safe_frames
                          THEN "SAFE" ELSE @]

\* mutant of UpdateFn: the thresholds are compared with > instead of >=
UpdateFn_OffByOne(d, is_hazard_frame) ==
    IF is_hazard_frame
    THEN LET c == d.hazard_counter + 1
         IN [d EXCEPT !.hazard_counter = c,
                      !.safe_counter = 0,
                      !.current_state =
                          IF d.current_state = "SAFE" /\ c > d.safe_to_hazard_frames
                          THEN "HAZARD" ELSE @]
    ELSE LET c == d.safe_counter + 1
         IN [d EXCEPT !.safe_counter = c,
                      !.hazard_counter = 0,
                      !.current_state =
                          IF d.current_state = "HAZARD" /\ c > d.hazard_to_safe_frames
                          THEN "SAFE" ELSE @]

\* mutant of UpdateFn: the state follows every frame, without debounce
UpdateFn_NoDebounce(d, is_hazard_frame) ==
    IF is_hazard_frame
    THEN [d EXCEPT !.hazard_counter = @ + 1, !.safe_counter = 0,
                   !.current_state = "HAZARD"]
    ELSE [d EXCEPT !.safe_counter = @ + 1, !.hazard_counter = 0,
                   !.current_state = "SAFE"]

\* DebounceState.update: the fields after the call (the call returns
\* current_state of the result)
UpdateFn(d, is_hazard_frame) ==
    IF is_hazard_frame
    THEN LET c == d.hazard_counter + 1
         IN [d EXCEPT !.hazard_counter = c,
                      !.safe_counter = 0,
                      !.current_state =
                          IF d.current_state = "SAFE" /\ c >= d.safe_to_hazard_frames
                          THEN "HAZARD" ELSE @]
    ELSE LET c == d.safe_counter + 1
         IN [d EXCEPT !.safe_counter = c,
                      !.hazard_counter = 0,
                      !.current_state =
                          IF d.current_state = "HAZARD" /\ c >= d.hazard_to_safe_frames
                          THEN "SAFE" ELSE @]

\* mutant of ResetFn: the state is overridden but the counters are kept
ResetFn_KeepsCounters(d, new_state) ==
    IF new_state # "None" /\ new_state \in States
    THEN [d EXCEPT !.current_state = new_state]
    ELSE d

\* mutant of ResetFn: only the hazard counter is cleared
ResetFn_KeepsSafe(d, new_state) ==
    IF new_state # "None"
    THEN IF new_state \notin States
         THEN d
         ELSE [d EXCEPT !.current_state = new_state, !.hazard_counter = 0]
    ELSE [d EXCEPT !.hazard_counter = 0]

\* mutant of ResetFn: the counters are cleared before new_state is looked at
ResetFn_ClearsFirst(d, new_state) ==
    IF new_state # "None" /\ new_state \in States
    THEN [d EXCEPT !.current_state = new_state,
                   !.hazard_counter = 0, !.safe_counter = 0]
    ELSE [d EXCEPT !.hazard_counter = 0, !.safe_counter = 0]

\* DebounceState.reset: the fields after the call; a new_state that is neither
\* None nor a state raises before anything is assigned
ResetFn(d, new_state) ==
    IF new_state # "None"
    THEN IF new_state \notin States
         THEN d
         ELSE [d EXCEPT !.current_state = new_state,
                        !.hazard_counter = 0, !.safe_counter = 0]
    ELSE [d EXCEPT !.hazard_counter = 0, !.safe_counter = 0]

\* the exception reset raises for this argument, or "none"
ResetRaises(new_state) ==
    IF new_state # "None" /\ new_state \notin States THEN "ValueError" ELSE "none"

InitialArgs == {"SAFE", "HAZARD", "UNKNOWN"}
ResetArgs == {"None", "SAFE", "HAZARD", "UNKNOWN"}
EnterArgs == -1 .. MaxEnter
ExitArgs == -1 .. MaxExit

\* main has neither raised nor called sys.exit or parser.error
NoExit == 0 - 1

NoMachine == [current_state |-> "none"]
NoArgs == [detector |-> "none"]

\* this behaviour is no run of app.py
AppOff ==
    /\ pc = "off"
    /\ args = NoArgs
    /\ exit_code = NoExit
    /\ state_machine = NoMachine
    /\ frame_count = 0
    /\ detections = << >>
    /\ state = "none"
    /\ servo_angle = "none"
    /\ empty_frames = 0
    /\ inference = "none"
    /\ detector_frames = {}
    /\ updates = 0
    /\ writer = "none"
    /\ recorded = 0
    /\ log_rows = 0
    /\ release_calls = 0

NoCall == [op |-> "none"]

\* no DebounceState is constructed in this behaviour
DsOff ==
    /\ ds = NoObject
    /\ ds_args = [initial |-> "none", safe_to_hazard_frames |-> DefaultEnter,
                  hazard_to_safe_frames |-> DefaultExit]
    /\ ds_error = "none"
    /\ ds_ret = "none"
    /\ ds_hist = << >>
    /\ ds_base = [how |-> "none", state |-> "none"]

\* pixel_to_angle is not called in this behaviour
GeoOff == geo = NoCall /\ geo_prev = NoCall

\* no YOLOHazard is driven directly in this behaviour
YoloOff == yolo = [live |-> FALSE] /\ yolo_call = NoCall

\* no VideoSource is driven directly in this behaviour
CamOff == cam = [live |-> FALSE] /\ cam_call = NoCall

\* no LogWriter exists in this behaviour
LogOff == log = [live |-> FALSE] /\ log_calls = NoCall

\* gpio_io is not used in this behaviour
GpioOff == gpio = [live |-> FALSE]

\* classic_cv is not used in this behaviour
CvOff == cv = [live |-> FALSE] /\ cv_call = NoCall

\* a client constructs one DebounceState
InitDebounce ==
    /\ ds_args \in [initial : InitialArgs,
                    safe_to_hazard_frames : EnterArgs,
                    hazard_to_safe_frames : ExitArgs]
    /\ ds = DebounceNew(ds_args.initial, ds_args.safe_to_hazard_frames,
                        ds_args.hazard_to_safe_frames)
    /\ ds_error = IF ds.current_state = "none" THEN "ValueError" ELSE "none"
    /\ ds_ret = "none"
    /\ ds_hist = << >>
    /\ ds_base = [how |-> "new", state |-> ds_args.initial]
    /\ AppOff
    /\ GeoOff /\ YoloOff /\ CamOff /\ LogOff /\ GpioOff /\ CvOff

\* the client calls update(is_hazard_frame)
DsUpdate(is_hazard_frame) ==
    /\ ds.current_state \in States
    /\ Len(ds_hist) < MaxHist
    /\ ds' = UpdateFn(ds, is_hazard_frame)
    /\ ds_ret' = ds'.current_state
    /\ ds_error' = "none"
    /\ ds_hist' = Append(ds_hist, is_hazard_frame)
    /\ UNCHANGED <<ds_args, ds_base, appvars, libvars>>

\* the client calls reset(new_state)
DsReset(new_state) ==
    /\ ds.current_state \in States
    /\ ds' = ResetFn(ds, new_state)
    /\ ds_error' = ResetRaises(new_state)
    /\ ds_ret' = "none"
    /\ IF ResetRaises(new_state) = "none"
       THEN /\ ds_hist' = << >>
            /\ ds_base' = [how |-> IF new_state = "None" THEN "reset_keep" ELSE "reset",
                           state |-> IF new_state = "None" THEN ds.current_state
                                     ELSE new_state]
       ELSE UNCHANGED <<ds_hist, ds_base>>
    /\ UNCHANGED <<ds_args, appvars, libvars>>

NextDebounce ==
    \/ \E b \in BOOLEAN : DsUpdate(b)
    \/ \E s \in ResetArgs : DsReset(s)

SpecDebounce == InitDebounce /\ [][NextDebounce]_vars

(***************************************************************************)
(* app.py: HazardStateMachine                                              *)
(***************************************************************************)
AssumedWidth == 640     \* the frame width the angle mapping divides by
ServoSpan == 180        \* degrees the mapping spreads over the width
ServoLimit == 90        \* the mapping's offset and clamp
DefaultDebounce == 3    \* debounce_frames: int = 3

\* Angles are held as integers in 1/AngleDen degree: with integer x and w,
\* x_center / 640 * 180 - 90 is ((2x + w) * 180 - 90 * 1280) / 1280.
AngleDen == 2 * AssumedWidth

\* HazardStateMachine.__init__: nothing is validated
HazardStateMachineNew(debounce_frames) ==
    [debounce_frames |-> debounce_frames,
     hazard_count |-> 0,
     current_state |-> "SAFE"]

\* mutant of ServoAngle: the mapping is applied to the defaults x = 0, w = 0
\* when there is no detection
ServoAngle_NoNeutral(dets) ==
    LET x2 == IF Len(dets) > 0 THEN 2 * dets[1].x + dets[1].w ELSE 0
    IN Max(0 - ServoLimit * AngleDen,
           Min(ServoLimit * AngleDen, x2 * ServoSpan - ServoLimit * AngleDen))

\* mutant of ServoAngle: the field-of-view mapping of geometry.py, +-30 degrees
\* over the assumed width
ServoAngle_Fov(dets) ==
    IF Len(dets) > 0
    THEN (2 * dets[1].x + dets[1].w - AssumedWidth) * 60
    ELSE 0

\* mutant of ServoAngle: the mapped angle is not clamped
ServoAngle_Unclamped(dets) ==
    IF Len(dets) > 0
    THEN (2 * dets[1].x + dets[1].w) * ServoSpan - ServoLimit * AngleDen
    ELSE 0

\* HazardStateMachine.update, the angle: 0.0 unless there is a detection, then
\* the first detection's centre mapped to [-90, 90] and clamped
ServoAngle(dets) ==
    IF Len(dets) > 0
    THEN LET det == dets[1]
             x_center2 == 2 * det.x + det.w       \* twice x_center
         IN Max(0 - ServoLimit * AngleDen,
                Min(ServoLimit * AngleDen,
                    x_center2 * ServoSpan - ServoLimit * AngleDen))
    ELSE 0

\* mutant of HsmUpdate: HAZARD needs more than debounce_frames frames
HsmUpdate_Late(sm, dets) ==
    LET hazard_count == IF Len(dets) > 0 THEN sm.hazard_count + 1 ELSE 0
    IN [sm EXCEPT
          !.hazard_count = hazard_count,
          !.current_state =
              IF hazard_count > sm.debounce_frames /\ sm.current_state = "SAFE"
              THEN "HAZARD"
              ELSE IF hazard_count = 0 /\ sm.current_state = "HAZARD"
                   THEN "SAFE"
                   ELSE @]

\* HazardStateMachine.update, the fields after the call
HsmUpdate(sm, dets) ==
    LET hazard_count == IF Len(dets) > 0 THEN sm.hazard_count + 1 ELSE 0
    IN [sm EXCEPT
          !.hazard_count = hazard_count,
          !.current_state =
              IF hazard_count >= sm.debounce_frames /\ sm.current_state = "SAFE"
              THEN "HAZARD"
              ELSE IF hazard_count = 0 /\ sm.current_state = "HAZARD"
                   THEN "SAFE"
                   ELSE @]

(***************************************************************************)
(* app.py: main                                                            *)
(***************************************************************************)
\* the x and w of the detection dictionaries the detectors hand over; centres
\* left of the frame, at its left edge, its middle, its right edge, and right
\* of it
Boxes ==
    {[x |-> 0 - 700, w |-> 40], [x |-> 0, w |-> 0],
     [x |-> 300, w |-> 40], [x |-> 620, w |-> 40], [x |-> 900, w |-> 40]}

\* what a detector can return for one frame: up to two detections
DetectionLists ==
    {<< >>} \cup {<<b>> : b \in Boxes}
        \cup {<<b, [x |-> 300, w |-> 40]>> : b \in Boxes}

\* --yolo-weights: not given, given but no such file, a file YOLO cannot
\* load, a loadable file
WeightsArgs == {"absent", "missing", "unloadable", "ok"}

\* main after parse_args; debounce_frames is the argument HazardStateMachine
\* is constructed with (main itself passes none: DefaultDebounce)
InitApp ==
    /\ pc = "init_detector"
    /\ args \in [detector : {"classic", "yolo"},
                 yolo_weights : WeightsArgs,
                 yolo_every : 0 .. MaxEvery,
                 record : BOOLEAN,
                 debounce_frames : -1 .. MaxDebounce]
    /\ args.detector = "classic" => (args.yolo_weights = "absent" /\ args.yolo_every = 1)
    /\ exit_code = NoExit
    /\ state_machine = NoMachine
    /\ frame_count = 0
    /\ detections = << >>
    /\ state = "none"
    /\ servo_angle = "none"
    /\ empty_frames = 0
    /\ inference = "none"
    /\ detector_frames = {}
    /\ updates = 0
    /\ writer = "none"
    /\ recorded = 0
    /\ log_rows = 0
    /\ release_calls = 0
    /\ DsOff
    /\ GeoOff /\ YoloOff /\ CamOff /\ LogOff /\ GpioOff /\ CvOff

\* what YOLOHazard.__init__ raises for these weights, or "none"
YoloNewRaises(weights) ==
    CASE weights = "missing" -> "FileNotFoundError"
      [] weights = "unloadable" -> "RuntimeError"
      [] OTHER -> "none"

\* main, argument validation and detector construction
MainInitDetector ==
    /\ pc = "init_detector"
    /\ IF args.detector = "yolo" /\ args.yolo_weights = "absent"
       THEN pc' = "exited" /\ exit_code' = 2
       ELSE IF args.detector = "yolo" /\ YoloNewRaises(args.yolo_weights) # "none"
            THEN pc' = "exited" /\ exit_code' = 1
            ELSE pc' = "init_video" /\ UNCHANGED exit_code
    /\ UNCHANGED <<args, state_machine, frame_count, detections, state, servo_angle,
                   empty_frames, inference, detector_frames, updates, writer,
                   recorded, log_rows, release_calls, dsvars, libvars>>

\* main, VideoSource(...) and start(): either may raise
MainInitVideo(ok) ==
    /\ pc = "init_video"
    /\ IF ok
       THEN pc' = "init_state_machine" /\ UNCHANGED exit_code
       ELSE pc' = "exited" /\ exit_code' = 1
    /\ UNCHANGED <<args, state_machine, frame_count, detections, state, servo_angle,
                   empty_frames, inference, detector_frames, updates, writer,
                   recorded, log_rows, release_calls, dsvars, libvars>>

\* main, the state machine, the recorder and the event log are set up
MainInitStateMachine ==
    /\ pc = "init_state_machine"
    /\ state_machine' = HazardStateMachineNew(args.debounce_frames)
    /\ writer' = IF args.record THEN "open" ELSE "none"
    /\ pc' = "read"
    /\ UNCHANGED <<args, exit_code, frame_count, detections, state, servo_angle,
                   empty_frames, inference, detector_frames, updates,
                   recorded, log_rows, release_calls, dsvars, libvars>>

\* main loop, video.read(): a failed read leaves the loop
MainRead(ok) ==
    /\ pc = "read"
    /\ ok => frame_count < MaxFrames
    /\ IF ok
       THEN pc' = "detect" /\ frame_count' = frame_count + 1
       ELSE pc' = "cleanup" /\ UNCHANGED frame_count
    /\ UNCHANGED <<args, exit_code, state_machine, detections, state, servo_angle,
                   empty_frames, inference, detector_frames, updates, writer,
                   recorded, log_rows, release_calls, dsvars, libvars>>

\* mutant of DetectorDue: the detector runs on every frame
DetectorDue_Always(detector, count, every) == TRUE

\* main loop: the detector is called on this frame (the learned one only
\* when frame_count % yolo_every == 0)
DetectorDue(detector, count, every) ==
    detector # "yolo" \/ count % every = 0

\* mutant of DetectorResult: the except branch hands back what was collected
DetectorResult_Partial(dets, failed) == dets

\* YOLOHazard.detect as main calls it (every_n_frames = 1): the detections
\* of the model, or [] when the model raised
DetectorResult(dets, failed) == IF failed THEN << >> ELSE dets

\* main loop, detection.  The classic detector main imports,
\* detect_edges_contours, is not defined in classic_cv.py; its result is taken
\* to be a detection list like the learned detector's.  --yolo-every 0 makes
\* frame_count % yolo_every raise ZeroDivisionError, which main does not catch.
MainDetect(dets, failed) ==
    /\ pc = "detect"
    /\ failed => args.detector = "yolo"
    /\ IF args.detector = "yolo" /\ args.yolo_every = 0
       THEN /\ pc' = "cleanup"
            /\ exit_code' = 1
            /\ UNCHANGED <<detections, inference, detector_frames>>
       ELSE /\ IF DetectorDue(args.detector, frame_count, args.yolo_every)
               THEN /\ detections' = DetectorResult(dets, failed)
                    /\ inference' = IF failed THEN "failed" ELSE "ok"
                    /\ detector_frames' = detector_frames \cup {frame_count}
               ELSE /\ dets = << >> /\ ~failed
                    /\ detections' = << >>
                    /\ inference' = "none"
                    /\ UNCHANGED detector_frames
            /\ pc' = "update"
            /\ UNCHANGED exit_code
    /\ UNCHANGED <<args, state_machine, frame_count, state, servo_angle,
                   empty_frames, updates, writer, recorded, log_rows,
                   release_calls, dsvars, libvars>>

\* main loop, state, servo_angle = state_machine.update(detections)
MainUpdate ==
    /\ pc = "update"
    /\ state_machine' = HsmUpdate(state_machine, detections)
    /\ state' = state_machine'.current_state
    /\ servo_angle' = ServoAngle(detections)
    /\ empty_frames' = IF Len(detections) > 0 THEN 0 ELSE empty_frames + 1
    /\ updates' = updates + 1
    /\ pc' = "display"
    /\ UNCHANGED <<args, exit_code, frame_count, detections, inference,
                   detector_frames, writer, recorded, log_rows, release_calls,
                   dsvars, libvars>>

\* main loop, drawing, imshow and waitKey: the q key leaves the loop
MainDisplay(quit) ==
    /\ pc = "display"
    /\ pc' = IF quit THEN "cleanup" ELSE "log"
    /\ UNCHANGED <<args, exit_code, state_machine, frame_count, detections, state,
                   servo_angle, empty_frames, inference, detector_frames, updates,
                   writer, recorded, log_rows, release_calls, dsvars, libvars>>

\* main loop, the frame is recorded (with --record) and the event row written
MainLog ==
    /\ pc = "log"
    /\ recorded' = IF writer = "open" THEN recorded + 1 ELSE recorded
    /\ log_rows' = log_rows + 1
    /\ pc' = "read"
    /\ UNCHANGED <<args, exit_code, state_machine, frame_count, detections, state,
                   servo_angle, empty_frames, inference, detector_frames, updates,
                   writer, release_calls, dsvars, libvars>>

\* KeyboardInterrupt anywhere in the loop
MainInterrupt ==
    /\ pc \in {"read", "detect", "update", "display", "log"}
    /\ pc' = "cleanup"
    /\ UNCHANGED <<args, exit_code, state_machine, frame_count, detections, state,
                   servo_angle, empty_frames, inference, detector_frames, updates,
                   writer, recorded, log_rows, release_calls, dsvars, libvars>>

\* mutant of WriterAfterCleanup: the recorder is left open
WriterAfterCleanup_LeftOpen(w) == w

\* the finally block, if writer: writer.release()
WriterAfterCleanup(w) == IF w = "open" THEN "released" ELSE w

\* the finally block: video.release(), the recorder, the windows
MainCleanup ==
    /\ pc = "cleanup"
    /\ release_calls' = release_calls + 1
    /\ writer' = WriterAfterCleanup(writer)
    /\ pc' = "done"
    /\ UNCHANGED <<args, exit_code, state_machine, frame_count, detections, state,
                   servo_angle, empty_frames, inference, detector_frames, updates,
                   recorded, log_rows, dsvars, libvars>>

NextApp ==
    \/ MainInitDetector
    \/ \E ok \in BOOLEAN : MainInitVideo(ok)
    \/ MainInitStateMachine
    \/ \E ok \in BOOLEAN : MainRead(ok)
    \/ \E dets \in DetectionLists, failed \in BOOLEAN : MainDetect(dets, failed)
    \/ MainUpdate
    \/ \E quit \in BOOLEAN : MainDisplay(quit)
    \/ MainLog
    \/ MainInterrupt
    \/ MainCleanup

SpecApp == InitApp /\ [][NextApp]_vars

\* the finally block runs once control reaches it
SpecAppLive == SpecApp /\ WF_vars(MainCleanup)

(***************************************************************************)
(* utils1/geometry.py                                                      *)
(***************************************************************************)
DefaultHfov == 60       \* hfov_deg=60.0
MaxWidth == 2           \* widest of the small frames tried beside AssumedWidth

\* mutant of PixelToAngle: the offset is scaled by the whole width and the
\* whole field of view
PixelToAngle_FullScale(center_x2, frame_width, hfov_deg) ==
    [num |-> (center_x2 - frame_width) * hfov_deg * 2, den |-> 2 * frame_width]

\* pixel_to_angle, for a centre given as twice its value (centres are
\* multiples of 1/2): dx = center_x - frame_width / 2 and
\* angle = (dx / (frame_width / 2)) * (hfov_deg / 2), held exactly as the
\* fraction num / den with den = 2 * frame_width
PixelToAngle(center_x2, frame_width, hfov_deg) ==
    [num |-> (center_x2 - frame_width) * hfov_deg, den |-> 2 * frame_width]

\* frame widths, fields of view and centres (doubled) pixel_to_angle is called
\* with: every half pixel of the small frames, and the quarter points of a
\* 640 pixel frame, with centres outside the frame on both sides
GeoWidths == (0 .. MaxWidth) \cup {AssumedWidth}
GeoHfovs == {0, 1, DefaultHfov, ServoLimit}
GeoCenters(frame_width) ==
    IF frame_width <= MaxWidth
    THEN (0 - 2) .. (2 * frame_width + 2)
    ELSE {(k * frame_width) \div 2 : k \in (0 - 1) .. 5}

\* a caller of geometry.py
InitGeometry ==
    /\ geo = NoCall
    /\ geo_prev = NoCall
    /\ DsOff /\ AppOff /\ YoloOff /\ CamOff /\ LogOff /\ GpioOff /\ CvOff

\* pixel_to_angle(center_x, frame_width, hfov_deg); a zero width raises
\* ZeroDivisionError
GeoCall(center_x2, frame_width, hfov_deg) ==
    /\ geo' = [op |-> "pixel_to_angle",
               center_x2 |-> center_x2,
               frame_width |-> frame_width,
               hfov_deg |-> hfov_deg,
               raised |-> IF frame_width = 0 THEN "ZeroDivisionError" ELSE "none",
               angle |-> IF frame_width = 0 THEN [num |-> 0, den |-> 0]
                         ELSE PixelToAngle(center_x2, frame_width, hfov_deg)]
    /\ geo_prev' = geo
    /\ UNCHANGED <<dsvars, appvars, yolovars, camvars, logvars, gpio, cvvars>>

NextGeometry ==
    \E w \in GeoWidths, h \in GeoHfovs :
        \E c \in GeoCenters(w) : GeoCall(c, w, h)

SpecGeometry == InitGeometry /\ [][NextGeometry]_vars

(***************************************************************************)
(* detectors/yolo.py: YOLOHazard.detect                                    *)
(***************************************************************************)
MaxCalls == 6           \* detect calls made on one YOLOHazard

\* what detect is handed as frame: an array, the path of an image, a path
\* naming no file, a value that is neither a string nor an array
FrameArgs == {"array", "path", "missing_path", "other"}

\* mutant of SkipsFrame: the counter is compared before it is incremented
SkipsFrame_Early(count, every_n_frames) ==
    every_n_frames > 1 /\ (count - 1) % every_n_frames # 0

\* detect, the frame-skip test, count being _frame_count after its increment
SkipsFrame(count, every_n_frames) ==
    every_n_frames > 1 /\ count % every_n_frames # 0

\* detect, input validation: the exception raised for this frame, or "none"
FrameRaises(frame) ==
    CASE frame = "missing_path" -> "FileNotFoundError"
      [] frame = "other" -> "TypeError"
      [] OTHER -> "none"

\* a client holds a loaded YOLOHazard
InitYolo ==
    /\ yolo = [live |-> TRUE, frame_count |-> 0]
    /\ yolo_call = NoCall
    /\ DsOff /\ AppOff /\ GeoOff /\ CamOff /\ LogOff /\ GpioOff /\ CvOff

\* detect(frame, every_n_frames); dets is what the model finds, failed that
\* the model (or the reading of its results) raises
YoloDetect(frame, every_n_frames, dets, failed) ==
    /\ yolo.live
    /\ yolo.frame_count < MaxCalls
    /\ LET count == yolo.frame_count + 1
           skipped == SkipsFrame(count, every_n_frames)
           raised == IF skipped THEN "none" ELSE FrameRaises(frame)
           invoked == ~skipped /\ raised = "none"
       IN /\ (failed \/ dets # << >>) => invoked
          /\ yolo' = [yolo EXCEPT !.frame_count = count]
          /\ yolo_call' = [op |-> "detect",
                           ordinal |-> count,
                           frame |-> frame,
                           every_n_frames |-> every_n_frames,
                           invoked |-> invoked,
                           failed |-> failed,
                           raised |-> raised,
                           ret |-> IF raised # "none" THEN "none"
                                   ELSE IF invoked THEN DetectorResult(dets, failed)
                                   ELSE << >>]
    /\ UNCHANGED <<dsvars, appvars, geovars, camvars, logvars, gpio, cvvars>>

NextYolo ==
    \E frame \in FrameArgs, n \in 1 .. MaxEvery, dets \in DetectionLists,
       failed \in BOOLEAN : YoloDetect(frame, n, dets, failed)

SpecYolo == InitYolo /\ [][NextYolo]_vars

\* the learned detector, driven directly or by main
SpecDetect == (InitYolo \/ InitApp) /\ [][NextYolo \/ NextApp]_vars

(***************************************************************************)
(* io/camera.py: VideoSource                                               *)
(***************************************************************************)
\* how the Pi camera answers the constructor: not asked for (or no Pi),
\* Picamera2() raises, configure raises after Picamera2() returned, success
PicamOutcomes == {"not_used", "create_fails", "configure_fails", "ok"}

\* __init__, the picamera2 branch: self._picam after it ("none" for None);
\* a handle whose configure raised stays assigned
PicamAfterInit(outcome) ==
    CASE outcome = "ok" -> "configured"
      [] outcome = "configure_fails" -> "created"
      [] OTHER -> "none"

\* mutant of ReleaseRaises: stop/close and capture.release outside try
ReleaseRaises_Unguarded(c, stop_fails, release_fails) ==
    IF (c.picam # "none" /\ stop_fails) \/ (c.capture /\ release_fails)
    THEN "Exception" ELSE "none"

\* release: the exception it ends with; both backend calls sit in
\* try/except Exception blocks that only log
ReleaseRaises(c, stop_fails, release_fails) == "none"

\* the call just made, with the one before it
CamCallRecord(op, raised, ret, touched, was_running) ==
    [op |-> op, raised |-> raised, ret |-> ret, touched |-> touched,
     was_running |-> was_running,
     prev |-> IF cam_call.op = "none" THEN [op |-> "none", raised |-> "none"]
              ELSE [op |-> cam_call.op, raised |-> cam_call.raised]]

InitCamera ==
    /\ cam = [live |-> FALSE]
    /\ cam_call = NoCall
    /\ DsOff /\ AppOff /\ GeoOff /\ YoloOff /\ LogOff /\ GpioOff /\ CvOff

\* VideoSource(source, use_picamera): picam is how the Pi camera answers,
\* opened whether cv2.VideoCapture(source).isOpened().  picam_started and
\* capture_open are the backends' own state: the Pi camera streaming, the
\* capture not yet released.
CamNew(picam, opened) ==
    /\ ~cam.live
    /\ LET handle == PicamAfterInit(picam)
           fallback == picam # "ok"
           raised == IF fallback /\ ~opened THEN "RuntimeError" ELSE "none"
       IN /\ cam' = IF raised # "none" THEN [live |-> FALSE]
                    ELSE [live |-> TRUE, picam |-> handle,
                          capture |-> fallback, is_running |-> FALSE,
                          picam_started |-> FALSE, capture_open |-> fallback]
          /\ cam_call' = CamCallRecord("new", raised, "none",
                             (IF picam # "not_used" THEN {"picam"} ELSE {})
                                 \cup (IF fallback THEN {"capture"} ELSE {}),
                             FALSE)
    /\ UNCHANGED <<dsvars, appvars, geovars, yolovars, logvars, gpio, cvvars>>

\* start(): fails says whether self._picam.start() raises
CamStart(fails) ==
    /\ cam.live
    /\ LET touches == ~cam.is_running /\ cam.picam # "none"
           raised == IF touches /\ fails THEN "RuntimeError" ELSE "none"
       IN /\ cam' = [cam EXCEPT !.is_running = (raised = "none"),
                                !.picam_started = IF touches /\ ~fails THEN TRUE ELSE @]
          /\ cam_call' = CamCallRecord("start", raised, "none",
                             IF touches THEN {"picam"} ELSE {}, cam.is_running)
    /\ UNCHANGED <<dsvars, appvars, geovars, yolovars, logvars, gpio, cvvars>>

\* mutant of ReadBackend: read does not look at _is_running
ReadBackend_Unguarded(c) ==
    IF c.picam # "none" THEN "picam"
    ELSE IF c.capture THEN "capture" ELSE "none"

\* read(): the backend the call goes to; none when the source is not running
ReadBackend(c) ==
    IF ~c.is_running THEN "none"
    ELSE IF c.picam # "none" THEN "picam"
    ELSE IF c.capture THEN "capture" ELSE "none"

\* read(): fails says whether the backend raises, got whether capture.read()
\* reports a frame; the pair returned is (ok, frame)
CamRead(fails, got) ==
    /\ cam.live
    /\ LET backend == ReadBackend(cam)
           ok == CASE backend = "none" -> FALSE
                   [] fails -> FALSE
                   [] backend = "picam" -> TRUE
                   [] OTHER -> got /\ cam.capture_open
       IN /\ cam_call' = CamCallRecord("read", "none",
                             [ok |-> ok, frame |-> IF ok THEN "array" ELSE "None"],
                             IF backend = "none" THEN {} ELSE {backend},
                             cam.is_running)
          /\ UNCHANGED cam
    /\ UNCHANGED <<dsvars, appvars, geovars, yolovars, logvars, gpio, cvvars>>

\* release(): stop_fails and release_fails say whether the Pi camera's
\* stop/close and capture.release() raise
CamRelease(stop_fails, release_fails) ==
    /\ cam.live
    /\ LET raised == ReleaseRaises(cam, stop_fails, release_fails)
       IN /\ cam' = [cam EXCEPT !.is_running = FALSE,
                                !.picam_started = IF cam.picam # "none" /\ ~stop_fails
                                                  THEN FALSE ELSE @,
                                !.capture_open = IF cam.capture /\ ~release_fails
                                                 THEN FALSE ELSE @]
          /\ cam_call' = CamCallRecord("release", raised, "none",
                             (IF cam.picam # "none" THEN {"picam"} ELSE {})
                                 \cup (IF cam.capture THEN {"capture"} ELSE {}),
                             cam.is_running)
    /\ UNCHANGED <<dsvars, appvars, geovars, yolovars, logvars, gpio, cvvars>>

NextCamera ==
    \/ \E picam \in PicamOutcomes, opened \in BOOLEAN : CamNew(picam, opened)
    \/ \E fails \in BOOLEAN : CamStart(fails)
    \/ \E fails \in BOOLEAN, got \in BOOLEAN : CamRead(fails, got)
    \/ \E stop_fails \in BOOLEAN, release_fails \in BOOLEAN :
           CamRelease(stop_fails, release_fails)

SpecCamera == InitCamera /\ [][NextCamera]_vars

(***************************************************************************)
(* logging/log_writer.py: LogWriter and the CSV file at csv_path           *)
(***************************************************************************)
MaxEvents == 3          \* write_event calls made on one file
MaxWriters == 2         \* LogWriter objects constructed on one file

STANDARD_COLUMNS ==
    <<"timestamp", "state", "bbox_x", "bbox_y", "bbox_width", "bbox_height", "angle">>

\* the keys callers put in extra, in sorted order
ExtraColumns == <<"altitude", "zone">>

\* the key csv.DictReader files surplus cells under (restkey, None)
RestKey == "<restkey>"

\* the elements of a sequence
Range(q) == {q[i] : i \in 1 .. Len(q)}

\* sorted(new_columns)
Sorted(keys) == SelectSeq(ExtraColumns, LAMBDA k : k \in keys)

\* the isoformat timestamp of the n-th event
Timestamp(n) == <<"t1", "t2", "t3", "t4", "t5">>[n]

\* write_event, row_data: the standard fields (state given, no bbox, no
\* angle) updated with extra; every extra value is "x"
RowData(n, extra) ==
    [k \in Range(STANDARD_COLUMNS) \cup extra |->
        CASE k \in extra -> "x"
          [] k = "timestamp" -> Timestamp(n)
          [] k = "state" -> "SAFE"
          [] OTHER -> ""]

\* csv.DictReader, one data line read under a header: missing cells are None
\* (written back as the empty string), surplus cells go under restkey
ReadDict(header, cells) ==
    [k \in Range(header) \cup (IF Len(cells) > Len(header) THEN {RestKey} ELSE {}) |->
        IF k = RestKey THEN "<list>"
        ELSE LET i == CHOOSE j \in 1 .. Len(header) : header[j] = k
             IN IF i <= Len(cells) THEN cells[i] ELSE ""]

\* csv.DictWriter: a dict with a key outside fieldnames raises ValueError
Fits(fieldnames, d) == DOMAIN d \subseteq Range(fieldnames)

\* csv.DictWriter._dict_to_list: the cells written, missing keys empty
DictToList(fieldnames, d) ==
    [i \in 1 .. Len(fieldnames) |->
        IF fieldnames[i] \in DOMAIN d THEN d[fieldnames[i]] ELSE ""]

\* the data lines writerows gets onto the file: those before the first
\* dict that does not fit
RowsWritten(fieldnames, dicts) ==
    LET bad == {i \in 1 .. Len(dicts) : ~Fits(fieldnames, dicts[i])}
        n == IF bad = {} THEN Len(dicts)
             ELSE (CHOOSE i \in bad : \A j \in bad : i <= j) - 1
    IN [i \in 1 .. n |-> DictToList(fieldnames, dicts[i])]

\* the file operation of a write_event call that fails (file locked, disk
\* full): the read or the reopening for writing in _update_columns, the
\* append
FailPoints == {"none", "read", "rewrite", "append"}

\* write_event, the call of _update_columns (outside the try block): the
\* exception the call ends with
WidenRaises(fail, fits) ==
    CASE fail \in {"read", "rewrite"} -> "OSError"
      [] ~fits -> "ValueError"
      [] OTHER -> "none"

\* LogWriter(csv_path) on a path with no file: the file is created with the
\* standard header
InitLog ==
    /\ log = [live |-> TRUE, current_columns |-> STANDARD_COLUMNS,
              header |-> STANDARD_COLUMNS, rows |-> << >>,
              events |-> 0, writers |-> 1, fs_failed |-> FALSE]
    /\ log_calls = [op |-> "new", raised |-> "none", failed |-> "none",
                    sent |-> << >>]
    /\ DsOff /\ AppOff /\ GeoOff /\ YoloOff /\ CamOff /\ GpioOff /\ CvOff

\* LogWriter(csv_path) again on the same path (the program is started again):
\* the file exists and is left as it is
LogNew ==
    /\ log.live
    /\ log.writers < MaxWriters
    /\ log' = [log EXCEPT !.current_columns = STANDARD_COLUMNS,
                          !.writers = @ + 1]
    /\ log_calls' = [log_calls EXCEPT !.op = "new", !.raised = "none",
                                      !.failed = "none"]
    /\ UNCHANGED <<dsvars, appvars, geovars, yolovars, camvars, gpio, cvvars>>

\* write_event(state="SAFE", extra={k: "x" for k in extra}); fail is the file
\* operation that fails during the call
LogWriteEvent(extra, fail) ==
    /\ log.live
    /\ log.events < MaxEvents
    /\ LET n == log.events + 1
           row_data == RowData(n, extra)
           new_columns == extra \ Range(log.current_columns)
           widens == new_columns # {}
           dicts == [i \in 1 .. Len(log.rows) |-> ReadDict(log.header, log.rows[i])]
           columns == IF widens /\ fail # "read"
                      THEN log.current_columns \o Sorted(new_columns)
                      ELSE log.current_columns
           rewrites == widens /\ fail \notin {"read", "rewrite"}
           fits == \A i \in 1 .. Len(dicts) : Fits(columns, dicts[i])
           raised == IF widens THEN WidenRaises(fail, fits) ELSE "none"
           header == IF rewrites THEN columns ELSE log.header
           rows == IF rewrites THEN RowsWritten(columns, dicts) ELSE log.rows
           appends == raised = "none" /\ fail # "append" /\ Fits(columns, row_data)
       IN /\ fail \in {"read", "rewrite"} => widens
          /\ log' = [log EXCEPT
                        !.current_columns = columns,
                        !.header = header,
                        !.rows = IF appends
                                 THEN Append(rows, DictToList(columns, row_data))
                                 ELSE rows,
                        !.events = n,
                        !.fs_failed = @ \/ fail # "none"]
          /\ log_calls' = [op |-> "write_event", raised |-> raised,
                           failed |-> fail,
                           sent |-> Append(log_calls.sent, row_data)]
    /\ UNCHANGED <<dsvars, appvars, geovars, yolovars, camvars, gpio, cvvars>>

NextLog ==
    \/ LogNew
    \/ \E extra \in SUBSET Range(ExtraColumns), fail \in FailPoints :
           LogWriteEvent(extra, fail)

SpecLog == InitLog /\ [][NextLog]_vars

(***************************************************************************)
(* pi/gpio_io.py: the LED and the servo.  Duty cycles are exact, in units  *)
(* of 1/DutyDen percent.                                                   *)
(***************************************************************************)
DUTY_MIN10 == 25        \* DUTY_MIN = 2.5, in tenths of a percent
DUTY_MAX10 == 125       \* DUTY_MAX = 12.5, in tenths of a percent
FullAngle == 180        \* the servo's range in degrees
DutyDen == 10 * FullAngle

\* the angles callers ask for, in degrees
AnglesTried == {0 - 90, 0 - 1, 0, 1, 45, 90, 135, 179, 180, 181, 360}

\* mutant of AngleToDuty: the angle is not clamped
AngleToDuty_Unclamped(angle_deg) ==
    DUTY_MIN10 * FullAngle + angle_deg * (DUTY_MAX10 - DUTY_MIN10)

\* angle_to_duty, times DutyDen
AngleToDuty(angle_deg) ==
    LET clamped == Max(0, Min(FullAngle, angle_deg))
    IN DUTY_MIN10 * FullAngle + clamped * (DUTY_MAX10 - DUTY_MIN10)

\* the last call into gpio_io: duty is what was handed to the PWM object
GpioCallRecord(op, angle, duty, raised) ==
    [op |-> op, angle |-> angle, duty |-> duty, raised |-> raised]

\* the module is imported: no PWM object yet, no pin set up
InitGpio ==
    /\ gpio = [live |-> TRUE, servo_pwm |-> "none", pwm_duty |-> 0,
               led |-> "unset", call |-> GpioCallRecord("none", 0, 0, "none")]
    /\ DsOff /\ AppOff /\ GeoOff /\ YoloOff /\ CamOff /\ LogOff /\ CvOff

\* setup_gpio(): the LED low, the servo started at its centre position
GpioSetup ==
    /\ gpio.live
    /\ gpio' = [gpio EXCEPT !.servo_pwm = "running",
                            !.pwm_duty = AngleToDuty(90),
                            !.led = "low",
                            !.call = GpioCallRecord("setup_gpio", 90, AngleToDuty(90), "none")]
    /\ UNCHANGED <<dsvars, appvars, geovars, yolovars, camvars, logvars, cvvars>>

\* set_led_state(is_hazard); on a pin not set up the real GPIO.output raises
\* and the simulator does not (fails)
GpioSetLed(is_hazard, fails) ==
    /\ gpio.live
    /\ fails => gpio.led = "unset"
    /\ gpio' = [gpio EXCEPT !.led = IF fails THEN @
                                    ELSE IF is_hazard THEN "high" ELSE "low",
                            !.call = GpioCallRecord("set_led_state", 0, 0,
                                         IF fails THEN "RuntimeError" ELSE "none")]
    /\ UNCHANGED <<dsvars, appvars, geovars, yolovars, camvars, logvars, cvvars>>

\* set_servo_angle(angle_deg); fails says that ChangeDutyCycle raises, which
\* nothing in set_servo_angle catches
GpioSetServoAngle(angle_deg, fails) ==
    /\ gpio.live
    /\ fails => gpio.servo_pwm # "none"
    /\ IF gpio.servo_pwm = "none"
       THEN gpio' = [gpio EXCEPT !.call =
                        GpioCallRecord("set_servo_angle", angle_deg, 0, "none")]
       ELSE gpio' = [gpio EXCEPT
                        !.pwm_duty = IF fails THEN @ ELSE AngleToDuty(angle_deg),
                        !.call = GpioCallRecord("set_servo_angle", angle_deg,
                                     AngleToDuty(angle_deg),
                                     IF fails THEN "Exception" ELSE "none")]
    /\ UNCHANGED <<dsvars, appvars, geovars, yolovars, camvars, logvars, cvvars>>

\* cleanup_gpio(): the PWM is stopped, the pins are cleared; servo_pwm keeps
\* pointing at the stopped object
GpioCleanup ==
    /\ gpio.live
    /\ gpio' = [gpio EXCEPT !.servo_pwm = IF @ = "none" THEN "none" ELSE "stopped",
                            !.led = "unset",
                            !.call = GpioCallRecord("cleanup_gpio", 0, 0, "none")]
    /\ UNCHANGED <<dsvars, appvars, geovars, yolovars, camvars, logvars, cvvars>>

NextGpio ==
    \/ GpioSetup
    \/ \E is_hazard \in BOOLEAN, fails \in BOOLEAN : GpioSetLed(is_hazard, fails)
    \/ \E angle_deg \in AnglesTried, fails \in BOOLEAN :
           GpioSetServoAngle(angle_deg, fails)
    \/ GpioCleanup

SpecGpio == InitGpio /\ [][NextGpio]_vars

\* the two best-effort sinks: the event log and the actuator
SpecSinks == (InitLog \/ InitGpio) /\ [][NextLog \/ NextGpio]_vars

(***************************************************************************)
(* detectors/classic_cv.py: detect_hazards_classic.  The masks are kept    *)
(* along one pixel row of the frame, the row a line runs on; of the second *)
(* dimension only the height of the frame's regions is kept.               *)
(***************************************************************************)
StripLen == 14          \* pixels of the row
MaxEdges == 3           \* edge pixels Canny finds on the row
DilateRadius == 2       \* the 5x5 kernel reaches 2 pixels to each side
MinSide == 10           \* boxes narrower or lower than this are dropped

\* DEFAULT_PARAMS (hough_rho and hough_theta, the resolutions of the Hough
\* accumulator, have no counterpart on one row)
DefaultParams ==
    [canny_low |-> 50, canny_high |-> 150, hough_threshold |-> 50,
     min_line_length |-> 50, max_line_gap |-> 10, min_area |-> 800]

\* the params arguments tried: none, and overrides that let lines be found
\* on a short row and let small regions pass the area test
NoOverrides == [k \in {} |-> 0]

OverridesTried ==
    {NoOverrides,
     [hough_threshold |-> 3, min_line_length |-> 5],
     [hough_threshold |-> 3, min_line_length |-> 5, max_line_gap |-> 2, min_area |-> 100],
     [min_area |-> 0]}

\* mutant of DefaultsAfterMerge: p = DEFAULT_PARAMS without copy(), update on it
DefaultsAfterMerge_Aliased(defaults, params) ==
    [k \in DOMAIN defaults \cup DOMAIN params |->
        IF k \in DOMAIN params THEN params[k] ELSE defaults[k]]

\* DEFAULT_PARAMS after p = DEFAULT_PARAMS.copy(); p.update(params)
DefaultsAfterMerge(defaults, params) == defaults

\* p = DEFAULT_PARAMS.copy(); if params: p.update(params)
MergeParams(defaults, params) ==
    [k \in DOMAIN defaults \cup DOMAIN params |->
        IF k \in DOMAIN params THEN params[k] ELSE defaults[k]]

Pixels == 0 .. (StripLen - 1)

\* the same set, with its elements listed
Listed(S) == {x : x \in S}

\* cv2.HoughLinesP on the row: a and b are edge pixels joined by edge pixels
\* with no more than max_line_gap missing pixels between neighbours
Linked(edges, a, b, max_line_gap) ==
    /\ a \in edges /\ b \in edges /\ a <= b
    /\ \A e \in edges : (a <= e /\ e < b) =>
          \E f \in edges : e < f /\ f - e - 1 <= max_line_gap

\* cv2.HoughLinesP: the maximal such segments with at least hough_threshold
\* edge pixels and a length of at least min_line_length, as <<x1, x2>>
HoughLinesP(edges, q) ==
    Listed({seg \in edges \X edges :
        /\ Linked(edges, seg[1], seg[2], q.max_line_gap)
        /\ \A e \in edges :
              /\ e < seg[1] => ~Linked(edges, e, seg[2], q.max_line_gap)
              /\ e > seg[2] => ~Linked(edges, seg[1], e, q.max_line_gap)
        /\ Cardinality(edges \cap (seg[1] .. seg[2])) >= q.hough_threshold
        /\ seg[2] - seg[1] >= q.min_line_length})

\* cv2.line for every detected segment, on a mask of zeros
LineMask(lines) ==
    Listed({c \in Pixels : \E seg \in lines : seg[1] <= c /\ c <= seg[2]})

\* cv2.dilate(edges, 5x5 kernel)
Dilate(edges) ==
    Listed({c \in Pixels : \E e \in edges : c - e <= DilateRadius /\ e - c <= DilateRadius})

\* cv2.bitwise_xor(dilated_edges, line_mask)
NonLine(dilated_edges, line_mask) ==
    Listed((dilated_edges \ line_mask) \cup (line_mask \ dilated_edges))

\* mutant of Keeps: regions below min_area are kept as well
Keeps_AnyArea(cnt, q) == ~(cnt.w < MinSide \/ cnt.h < MinSide)

\* the filter loop: the contour is not skipped by either continue
Keeps(cnt, q) ==
    /\ ~(cnt.area < q.min_area)
    /\ ~(cnt.w < MinSide \/ cnt.h < MinSide)

\* the last pixel of the run of set pixels that starts at a
LastOfRun(mask, a) ==
    CHOOSE b \in mask :
        /\ b >= a /\ (b + 1) \notin mask
        /\ \A c \in mask : (c >= a /\ (c + 1) \notin mask) => b <= c

\* cv2.contourArea and cv2.boundingRect of the contour around the run of set
\* pixels that starts at a, rows pixel rows high; the area is the one
\* enclosed by the contour through the border pixels' centres
ContourAt(mask, rows, a) ==
    LET b == LastOfRun(mask, a)
    IN [x |-> a, y |-> 0, w |-> b - a + 1, h |-> rows, area |-> (b - a) * (rows - 1)]

\* cv2.findContours(RETR_EXTERNAL): one contour per run of set pixels, in the
\* order findContours hands them out, taken left to right
Contours(mask, rows) ==
    LET starts == Listed({a \in mask : (a - 1) \notin mask})
    IN [i \in 1 .. Cardinality(starts) |->
           ContourAt(mask, rows,
               CHOOSE a \in starts : Cardinality({t \in starts : t < a}) = i - 1)]

\* boxes.append((x, y, w, h))
BoxOf(cnt) == <<cnt.x, cnt.y, cnt.w, cnt.h>>

\* the loop over the contours
FilterBoxes(contours, q) ==
    LET kept == SelectSeq(contours, LAMBDA cnt : Keeps(cnt, q))
    IN [i \in 1 .. Len(kept) |-> BoxOf(kept[i])]

\* the frames: the edge map cv2.Canny gives on the row with the default
\* thresholds (canny_low and canny_high are not overridden), and the height
\* of the frame's regions
FrameRows == {MinSide - 1, MinSide}

\* the module is imported and a frame is at hand
InitClassic ==
    /\ cv_call = NoCall
    /\ DsOff /\ AppOff /\ GeoOff /\ YoloOff /\ CamOff /\ LogOff /\ GpioOff
    /\ \E edges \in SUBSET Pixels, rows \in FrameRows :
          /\ Cardinality(edges) <= MaxEdges
          /\ cv = [live |-> TRUE, DEFAULT_PARAMS |-> DefaultParams,
                   frame |-> [edges |-> edges, rows |-> rows]]

\* detect_hazards_classic(frame, params)
ClassicDetect(params) ==
    /\ cv.live
    /\ LET q == MergeParams(cv.DEFAULT_PARAMS, params)
           edges == cv.frame.edges
           lines == HoughLinesP(edges, q)
           line_mask == LineMask(lines)
           dilated_edges == Dilate(edges)
           non_line == NonLine(dilated_edges, line_mask)
           contours == Contours(non_line, cv.frame.rows)
       IN /\ cv' = [cv EXCEPT !.DEFAULT_PARAMS =
                                  DefaultsAfterMerge(cv.DEFAULT_PARAMS, params)]
          /\ cv_call' = [op |-> "detect", params |-> params, p |-> q,
                         lines |-> lines, dilated_edges |-> dilated_edges,
                         contours |-> contours,
                         boxes |-> FilterBoxes(contours, q),
                         line_mask |-> line_mask, non_line |-> non_line,
                         raised |-> "none",
                         prev |-> IF cv_call.op = "none" \/ cv_call.params # params
                                  THEN NoCall
                                  ELSE [op |-> "detect",
                                        boxes |-> cv_call.boxes,
                                        line_mask |-> cv_call.line_mask,
                                        non_line |-> cv_call.non_line]]
    /\ UNCHANGED <<dsvars, appvars, geovars, yolovars, camvars, logvars, gpio>>

NextClassic == \E params \in OverridesTried : ClassicDetect(params)

SpecClassic == InitClassic /\ [][NextClassic]_vars

(***************************************************************************)
(* The two state machines side by side: a client constructs                *)
(* HazardStateMachine(N) and DebounceState('SAFE', N, 1) and hands every   *)
(* frame's detection list to the first and its emptiness to the second.    *)
(***************************************************************************)
InitTwin ==
    /\ \E n \in 1 .. MaxDebounce :
          /\ state_machine = HazardStateMachineNew(n)
          /\ ds_args = [initial |-> "SAFE", safe_to_hazard_frames |-> n,
                        hazard_to_safe_frames |-> 1]
          /\ ds = DebounceNew("SAFE", n, 1)
    /\ ds_error = "none"
    /\ ds_ret = "none"
    /\ ds_hist = << >>
    /\ ds_base = [how |-> "new", state |-> "SAFE"]
    /\ pc = "off"
    /\ args = NoArgs
    /\ exit_code = NoExit
    /\ frame_count = 0
    /\ detections = << >>
    /\ state = "none"
    /\ servo_angle = "none"
    /\ empty_frames = 0
    /\ inference = "none"
    /\ detector_frames = {}
    /\ updates = 0
    /\ writer = "none"
    /\ recorded = 0
    /\ log_rows = 0
    /\ release_calls = 0
    /\ GeoOff /\ YoloOff /\ CamOff /\ LogOff /\ GpioOff /\ CvOff

\* state, servo_angle = state_machine.update(dets) and
\* debounce.update(len(dets) > 0)
TwinUpdate(dets) ==
    /\ state_machine.current_state \in States
    /\ ds.current_state \in States
    /\ pc = "off"
    /\ Len(ds_hist) < MaxHist
    /\ state_machine' = HsmUpdate(state_machine, dets)
    /\ state' = state_machine'.current_state
    /\ servo_angle' = ServoAngle(dets)
    /\ detections' = dets
    /\ updates' = updates + 1
    /\ ds' = UpdateFn(ds, Len(dets) > 0)
    /\ ds_ret' = ds'.current_state
    /\ ds_hist' = Append(ds_hist, Len(dets) > 0)
    /\ UNCHANGED <<ds_args, ds_error, ds_base, pc, args, exit_code, frame_count,
                   empty_frames, inference, detector_frames, writer, recorded,
                   log_rows, release_calls, libvars>>

NextTwin == \E dets \in DetectionLists : TwinUpdate(dets)

SpecTwin == InitTwin /\ [][NextTwin]_vars

\* either program
Init == InitDebounce \/ InitApp
Next == NextDebounce \/ NextApp
Spec == Init /\ [][Next]_vars

(***************************************************************************)
(* Reference definitions for the debounce claims.                          *)
(***************************************************************************)
Exists(d) == d.current_state \in States

\* the number of entries equal to b at the end of h
RECURSIVE TrailingRun(_, _)
TrailingRun(h, b) ==
    IF h = << >> \/ h[Len(h)] # b THEN 0
    ELSE 1 + TrailingRun(SubSeq(h, 1, Len(h) - 1), b)

\* h[lo..hi] are all b
Window(h, lo, hi, b) == \A k \in lo .. hi : h[k] = b

\* n consecutive observations b end at position i of h
RunEndsAt(h, i, n, b) == i >= n /\ i <= Len(h) /\ Window(h, i - n + 1, i, b)

\* n consecutive observations b lie wholly after position i of h
RunAfter(h, i, n, b) == \E j \in (i + n) .. Len(h) : RunEndsAt(h, j, n, b)

\* a machine started SAFE is expected in HAZARD after h: some run of E hazard
\* frames has been seen and no run of X safe frames after it
ExpectHazard(h, E, X) ==
    \E i \in 1 .. Len(h) : RunEndsAt(h, i, E, TRUE) /\ ~RunAfter(h, i, X, FALSE)

\* the fields of a fresh machine d0 after the update calls h
RECURSIVE Run(_, _)
Run(d0, h) == IF h = << >> THEN d0 ELSE Run(UpdateFn(d0, Head(h)), Tail(h))

H == TRUE
S == FALSE

FromNewSafe == Exists(ds) /\ ds_base = [how |-> "new", state |-> "SAFE"]
Defaults ==
    /\ FromNewSafe
    /\ ds.safe_to_hazard_frames = DefaultEnter
    /\ ds.hazard_to_safe_frames = DefaultExit

\* C1: a machine started SAFE is in HAZARD exactly when some run of E
\* consecutive hazard frames has occurred with no run of X consecutive safe
\* frames after it (so it is SAFE until the first such run, and then HAZARD
\* until X consecutive safe frames); each counter is the length of the current
\* run of its kind, so an opposite observation resets it to 0.
C1_Holds ==
    FromNewSafe =>
        /\ (ds.current_state = "HAZARD")
              <=> ExpectHazard(ds_hist, ds.safe_to_hazard_frames,
                               ds.hazard_to_safe_frames)
        /\ ds.hazard_counter = TrailingRun(ds_hist, TRUE)
        /\ ds.safe_counter = TrailingRun(ds_hist, FALSE)

\* the machine went to HAZARD and came back to SAFE, thresholds above 1
C1_Witness ==
    /\ FromNewSafe
    /\ ds.safe_to_hazard_frames >= 2
    /\ ds.hazard_to_safe_frames >= 2
    /\ ds.current_state = "SAFE"
    /\ \E i \in 1 .. Len(ds_hist) :
          RunEndsAt(ds_hist, i, ds.safe_to_hazard_frames, TRUE)

\* C2 as stated: with thresholds 3 and 5, [H,H,S,H,H,H] ends SAFE.
C2_Original ==
    (Defaults /\ ds_hist = <<H, H, S, H, H, H>>) => ds.current_state = "SAFE"

\* C2 amended: with thresholds 3 and 5, [H,H,S,H,H,H] ends HAZARD: the state
\* is SAFE after the first five calls (the S reset the streak) and the three H
\* after the S reach the enter threshold at the sixth call.
C2_Amended ==
    /\ (Defaults /\ ds_hist = <<H, H, S, H, H>>) => ds.current_state = "SAFE"
    /\ (Defaults /\ ds_hist = <<H, H, S, H, H, H>>) =>
           /\ ds.current_state = "HAZARD"
           /\ ds.hazard_counter = 3

C2_Witness == Defaults /\ ds_hist = <<H, H, S, H, H, H>>

\* the last call of the client was an update, which returned ds_ret
LastWasUpdate == ds_hist # << >> /\ ds_error = "none"

\* C3: with thresholds 3 and 5, [H,H,H,H] returns SAFE, SAFE, HAZARD, HAZARD.
C3_Holds ==
    (Defaults /\ LastWasUpdate) =>
        /\ ds_hist = <<H>> => ds_ret = "SAFE"
        /\ ds_hist = <<H, H>> => ds_ret = "SAFE"
        /\ ds_hist = <<H, H, H>> => ds_ret = "HAZARD"
        /\ ds_hist = <<H, H, H, H>> => ds_ret = "HAZARD"

C3_Witness == Defaults /\ ds_hist = <<H, H, H, H>> /\ ds_ret = "HAZARD"

\* C4: in every reachable state of DebounceState the state is SAFE or HAZARD,
\* both counters are >= 0 and at most one of them is nonzero.
C4_Holds ==
    Exists(ds) =>
        /\ ds.current_state \in {"SAFE", "HAZARD"}
        /\ ds.hazard_counter >= 0
        /\ ds.safe_counter >= 0
        /\ ds.hazard_counter = 0 \/ ds.safe_counter = 0

\* after a reset, a streak follows an opposite observation
C4_Witness ==
    /\ Exists(ds)
    /\ ds_base.how # "new"
    /\ Len(ds_hist) >= 3
    /\ ds_hist[Len(ds_hist)] # ds_hist[Len(ds_hist) - 1]
    /\ ds.hazard_counter + ds.safe_counter > 0

\* the step is a call of update
IsUpdateStep == Len(ds_hist') = Len(ds_hist) + 1

\* C5: an update call changes the state only at threshold crossing: SAFE to
\* HAZARD only when the hazard counter after the call equals the enter
\* threshold, HAZARD to SAFE only when the safe counter after the call equals
\* the exit threshold; with resets interleaved and from either initial state.
C5_Holds ==
    [][IsUpdateStep =>
          \/ ds'.current_state = ds.current_state
          \/ /\ ds.current_state = "SAFE"
             /\ ds'.current_state = "HAZARD"
             /\ ds'.hazard_counter = ds'.safe_to_hazard_frames
          \/ /\ ds.current_state = "HAZARD"
             /\ ds'.current_state = "SAFE"
             /\ ds'.safe_counter = ds'.hazard_to_safe_frames]_vars

\* after a reset to HAZARD the machine has just crossed the exit threshold
C5_Witness ==
    /\ Exists(ds)
    /\ ds_base = [how |-> "reset", state |-> "HAZARD"]
    /\ ds_args.initial = "SAFE"
    /\ ds.current_state = "SAFE"
    /\ ds.hazard_to_safe_frames >= 2
    /\ ds.safe_counter = ds.hazard_to_safe_frames

\* the threshold a constructor argument n stands for
Effective(n) == IF n <= 0 THEN 1 ELSE n

\* the machine constructed with each threshold <= 0 replaced by 1
ClampedTwin ==
    [current_state |-> ds_args.initial,
     safe_to_hazard_frames |-> Effective(ds_args.safe_to_hazard_frames),
     hazard_to_safe_frames |-> Effective(ds_args.hazard_to_safe_frames),
     hazard_counter |-> 0,
     safe_counter |-> 0]

\* C6: each threshold is clamped to >= 1 on its own: the stored thresholds are
\* the arguments with every value <= 0 replaced by 1, the machine is in the
\* state of the machine constructed with those thresholds after the same update
\* calls, and with a threshold <= 0 one hazard frame enters HAZARD, one safe
\* frame leaves it.
C6_Holds ==
    Exists(ds) =>
        /\ ds.safe_to_hazard_frames = Effective(ds_args.safe_to_hazard_frames)
        /\ ds.hazard_to_safe_frames = Effective(ds_args.hazard_to_safe_frames)
        /\ ds.safe_to_hazard_frames >= 1
        /\ ds.hazard_to_safe_frames >= 1
        /\ ds_base.how = "new" => ds = Run(ClampedTwin, ds_hist)
        /\ (/\ ds_base.how = "new"
            /\ ds_args.safe_to_hazard_frames <= 0
            /\ ds_args.initial = "SAFE"
            /\ ds_hist = <<H>>) => ds.current_state = "HAZARD"
        /\ (/\ ds_base.how = "new"
            /\ ds_args.hazard_to_safe_frames <= 0
            /\ ds_args.initial = "HAZARD"
            /\ ds_hist = <<S>>) => ds.current_state = "SAFE"

\* enter threshold given as <= 0, exit threshold above 1 and kept
C6_Witness ==
    /\ Exists(ds)
    /\ ds_base.how = "new"
    /\ ds_args.safe_to_hazard_frames <= 0
    /\ ds_args.hazard_to_safe_frames >= 2
    /\ ds_args.initial = "SAFE"
    /\ Len(ds_hist) >= 3
    /\ ds_hist[1] = H
    /\ ds_hist[2] = S
    /\ ds.current_state = "HAZARD"

\* C8: after reset(newState) both counters are 0 and the state is newState,
\* and after any further update calls the fields equal those of a machine
\* freshly constructed with initial = newState and the same thresholds.
C8_Holds ==
    (Exists(ds) /\ ds_base.how = "reset") =>
        /\ ds = Run(DebounceNew(ds_base.state, ds_args.safe_to_hazard_frames,
                                ds_args.hazard_to_safe_frames), ds_hist)
        /\ ds_hist = << >> =>
               /\ ds.current_state = ds_base.state
               /\ ds.hazard_counter = 0
               /\ ds.safe_counter = 0
        /\ LastWasUpdate => ds_ret = ds.current_state

\* reset to the state opposite to the constructor's, then enough updates to
\* change state again
C8_Witness ==
    /\ Exists(ds)
    /\ ds_base.how = "reset"
    /\ ds_base.state # ds_args.initial
    /\ ds.current_state # ds_base.state
    /\ Len(ds_hist) >= 3

\* a DebounceState constructor call was made with a threshold <= 0
BadThreshold ==
    /\ ds_base.how = "new"
    /\ ds_args.initial \in States
    /\ ds_args.safe_to_hazard_frames <= 0 \/ ds_args.hazard_to_safe_frames <= 0

\* main was started with the learned detector and a weights path naming no file
MissingWeights == args.detector = "yolo" /\ args.yolo_weights = "missing"

IsMainUpdateStep == pc = "update" /\ pc' = "display"

\* C9 as stated: once the reported state is HAZARD it stays HAZARD until
\* DefaultExit (5) consecutive frames with no detections have been processed;
\* one such frame does not return it to SAFE.
C9_Original ==
    [][(/\ IsMainUpdateStep
        /\ state_machine.debounce_frames = DefaultDebounce
        /\ state = "HAZARD"
        /\ state' = "SAFE") => empty_frames' >= DefaultExit]_vars

\* main has processed the frame: state and servo_angle are those of this frame
FrameDone == pc \in {"display", "log"}

\* C10: every processed frame has an angle, and the angle of a frame with no
\* detections is 0, whatever the state and the earlier angles.
C10_Holds ==
    FrameDone =>
        /\ servo_angle \in (0 - ServoLimit * AngleDen) .. (ServoLimit * AngleDen)
        /\ detections = << >> => servo_angle = 0

\* a frame with no detections right after frames with detections, in HAZARD
\* before it
C10_Witness ==
    /\ FrameDone
    /\ detections = << >>
    /\ empty_frames = 1
    /\ frame_count >= 4
    /\ state = "SAFE"
    /\ state_machine.debounce_frames = DefaultDebounce
    /\ servo_angle = 0

\* the first detection's centre, doubled: 2 * (x + w / 2)
PrimaryCenter2 == 2 * detections[1].x + detections[1].w

\* C11 as stated: for a non-empty detection set the angle main emits is
\* pixel_to_angle(centre of the first detection, 640, 60).
C11_Original ==
    (FrameDone /\ detections # << >>) =>
        servo_angle = PixelToAngle(PrimaryCenter2, AssumedWidth, DefaultHfov).num

\* C11 amended: for a non-empty detection set the angle main emits is the
\* fixed-width map x_center / 640 * 180 - 90 of the first detection's centre,
\* clamped to [-90, 90]: centre 0 gives -90, 320 gives 0, 640 gives +90.  That
\* is 180 / 60 = 3 times pixel_to_angle(centre, 640, 60), cut off at -90 and 90.
C11_Amended ==
    (FrameDone /\ detections # << >>) =>
        /\ servo_angle =
              Max(0 - ServoLimit * AngleDen,
                  Min(ServoLimit * AngleDen,
                      (ServoSpan \div DefaultHfov)
                         * PixelToAngle(PrimaryCenter2, AssumedWidth, DefaultHfov).num))
        /\ PrimaryCenter2 = 0 => servo_angle = 0 - ServoLimit * AngleDen
        /\ PrimaryCenter2 = AssumedWidth => servo_angle = 0
        /\ PrimaryCenter2 = 2 * AssumedWidth => servo_angle = ServoLimit * AngleDen

\* a frame whose first detection is centred on the right edge, x = 640
C11_Witness ==
    /\ FrameDone
    /\ Len(detections) = 2
    /\ PrimaryCenter2 = 2 * AssumedWidth
    /\ servo_angle = ServoLimit * AngleDen

\* pixel_to_angle returned a value
GeoReturned(g) == g.op = "pixel_to_angle" /\ g.raised = "none"

\* the value a call returned is v degrees
GeoIs(g, v) == g.angle.num = v * g.angle.den

\* C12: pixel_to_angle is 0 at the centre of a 640 pixel frame for any field
\* of view, -30 at (0, 640, 60), +30 at (640, 640, 60); for a centre within
\* [0, frame_width], frame_width > 0, the result is within
\* [-hfov / 2, +hfov / 2], and it does not decrease when the centre grows.
C12_Holds ==
    /\ GeoReturned(geo) =>
          /\ (geo.frame_width = AssumedWidth /\ geo.center_x2 = AssumedWidth)
                => GeoIs(geo, 0)
          /\ (/\ geo.frame_width = AssumedWidth
              /\ geo.hfov_deg = DefaultHfov
              /\ geo.center_x2 = 0) => GeoIs(geo, 0 - 30)
          /\ (/\ geo.frame_width = AssumedWidth
              /\ geo.hfov_deg = DefaultHfov
              /\ geo.center_x2 = 2 * AssumedWidth) => GeoIs(geo, 30)
          /\ (geo.center_x2 >= 0 /\ geo.center_x2 <= 2 * geo.frame_width) =>
                /\ 2 * geo.angle.num >= 0 - geo.hfov_deg * geo.angle.den
                /\ 2 * geo.angle.num <= geo.hfov_deg * geo.angle.den
    /\ (/\ GeoReturned(geo)
        /\ GeoReturned(geo_prev)
        /\ geo.frame_width = geo_prev.frame_width
        /\ geo.hfov_deg = geo_prev.hfov_deg
        /\ geo_prev.center_x2 <= geo.center_x2) =>
           geo_prev.angle.num <= geo.angle.num

\* the right edge of a 640 pixel frame after its left edge, field of view 60
C12_Witness ==
    /\ GeoReturned(geo)
    /\ GeoReturned(geo_prev)
    /\ geo.frame_width = AssumedWidth
    /\ geo_prev.frame_width = AssumedWidth
    /\ geo.hfov_deg = DefaultHfov
    /\ geo_prev.hfov_deg = DefaultHfov
    /\ geo_prev.center_x2 = 0
    /\ geo.center_x2 = 2 * AssumedWidth
    /\ GeoIs(geo_prev, 0 - 30)
    /\ GeoIs(geo, 30)

\* the last detect call on the YOLOHazard object
Detected == yolo_call.op = "detect"

\* the multiples of n among 1 .. k
Multiples(n, k) == {i \in 1 .. k : i % n = 0}

\* main runs the learned detector with a usable sampling period
Sampling == pc # "off" /\ args.detector = "yolo" /\ args.yolo_every >= 1

\* the sampling of the main loop: the detector has been called on exactly the
\* frames whose frame_count is a multiple of yolo_every, and a frame on which
\* it was not called has an empty detection list
MainSampling ==
    Sampling =>
        /\ detector_frames \subseteq Multiples(args.yolo_every, frame_count)
        /\ Multiples(args.yolo_every, frame_count - 1) \subseteq detector_frames
        /\ pc \in {"update", "display", "log"} =>
              /\ frame_count \in detector_frames <=> frame_count % args.yolo_every = 0
              /\ frame_count \notin detector_frames =>
                    (detections = << >> /\ inference = "none")

\* C13 as stated: with a period N > 1 the model is invoked exactly on the detect
\* calls whose ordinal is a multiple of N, every other call returns [] without
\* invoking it; and likewise for the sampling of the main loop.
C13_Original ==
    /\ (Detected /\ yolo_call.every_n_frames > 1) =>
          /\ yolo_call.invoked <=> yolo_call.ordinal % yolo_call.every_n_frames = 0
          /\ ~yolo_call.invoked => yolo_call.ret = << >>
    /\ MainSampling

\* C13 amended: with a period N > 1 a detect call whose ordinal is no multiple
\* of N returns [] without invoking the model, whatever its frame; a call whose
\* ordinal is a multiple of N invokes the model if its frame is an array or the
\* path of an existing file, and otherwise raises (FileNotFoundError,
\* TypeError) without invoking it.  The sampling of the main loop is as stated.
C13_Amended ==
    /\ (Detected /\ yolo_call.every_n_frames > 1) =>
          /\ yolo_call.ordinal = yolo.frame_count
          /\ yolo_call.ordinal % yolo_call.every_n_frames # 0 =>
                (~yolo_call.invoked /\ yolo_call.raised = "none"
                    /\ yolo_call.ret = << >>)
          /\ yolo_call.ordinal % yolo_call.every_n_frames = 0 =>
                /\ yolo_call.invoked <=> yolo_call.frame \in {"array", "path"}
                /\ ~yolo_call.invoked => yolo_call.raised # "none"
    /\ MainSampling

\* the fourth call, period 2, is handed a path naming no file
C13_Witness ==
    /\ Detected
    /\ yolo_call.every_n_frames = 2
    /\ yolo_call.ordinal = 4
    /\ yolo_call.frame = "missing_path"
    /\ yolo_call.raised = "FileNotFoundError"

\* C14: a failure of the model during detect does not reach the caller: the
\* call returns the empty list; in the main loop the frame then has an empty
\* detection list, the state machine is updated for it and the loop goes on.
C14_Holds ==
    /\ (Detected /\ yolo_call.failed) =>
          (yolo_call.raised = "none" /\ yolo_call.ret = << >>)
    /\ (pc # "off" /\ inference = "failed") =>
          /\ exit_code = NoExit
          /\ pc \in {"update", "display", "log"} => detections = << >>
          /\ pc \in {"display", "log"} =>
                (updates = frame_count /\ state \in States /\ servo_angle = 0)

\* the model failed on one frame and main is at the detection of the next
C14_Witness ==
    /\ pc = "detect"
    /\ inference = "failed"
    /\ frame_count >= 2
    /\ updates = frame_count - 1
    /\ log_rows = frame_count - 1

\* main has not raised: no exit status is set
NotRaised == exit_code = NoExit

\* control has left the main loop (break, KeyboardInterrupt or an uncaught
\* exception) and is at or past the finally block
LeftLoop == pc \in {"cleanup", "done"}

\* a step that processes a frame: reads, detects, updates, records or logs
ProcessesFrame ==
    \/ frame_count' # frame_count
    \/ detector_frames' # detector_frames
    \/ updates' # updates
    \/ recorded' # recorded
    \/ log_rows' # log_rows

\* a failed read: the loop ends, nothing is raised
ReadFailureEndsLoop ==
    [][(pc = "read" /\ pc' # "detect") =>
          (pc' = "cleanup" /\ NotRaised' /\ ~ProcessesFrame)]_vars

\* once out of the loop no further frame is processed
NoFrameAfterLoop == [][LeftLoop => (LeftLoop' /\ ~ProcessesFrame)]_vars

\* video.release() is called once, in the finally block, which also releases
\* the recorder
ReleasedOnce ==
    [](/\ release_calls <= 1
       /\ pc = "cleanup" => release_calls = 0
       /\ pc = "done" => (release_calls = 1 /\ writer # "open"
                             /\ (args.record => writer = "released")))

\* C15: a failed read ends the main loop without raising and without another
\* frame being processed, and on every way out of the loop the cleanup runs:
\* video.release() is eventually called, exactly once, and the recorder, if
\* any, is released.
C15_Holds ==
    /\ ReadFailureEndsLoop
    /\ NoFrameAfterLoop
    /\ ReleasedOnce
    /\ (pc = "cleanup") ~> (pc = "done")

\* a run with --record whose third read failed and whose cleanup is done
C15_Witness ==
    /\ pc = "done"
    /\ args.record
    /\ frame_count = 2
    /\ log_rows = 2
    /\ recorded = 2
    /\ release_calls = 1
    /\ writer = "released"
    /\ NotRaised

\* C16 as stated: a stop request is observed only between iterations, so
\* whenever control is between iterations or out of the loop every frame
\* that updated the state machine has its event-log row (and, with --record,
\* has been recorded).
C16_Original ==
    (pc \in {"read", "cleanup", "done"} /\ NotRaised) =>
        /\ log_rows = updates
        /\ args.record => recorded = updates

\* the last call on the VideoSource was release()
Released == cam_call.op = "release"

\* C17: VideoSource.release() never raises, whatever the state of the source
\* (never started, after a failed start, running, already released) and
\* whatever its backends do, and the source is not running afterwards.
C17_Holds ==
    Released => (cam_call.raised = "none" /\ cam.live /\ ~cam.is_running)

\* release() after a start() that failed, on a source that holds a Pi camera
\* handle (whose stop may fail as well)
C17_Witness ==
    /\ Released
    /\ cam_call.prev.op = "start"
    /\ cam_call.prev.raised = "RuntimeError"
    /\ cam.picam # "none"
    /\ "picam" \in cam_call.touched

\* what a reader of the file should get for a call: under every column of
\* the header the value the call wrote, empty where the call had no such key
ExpectedDict(header, d) ==
    [k \in Range(header) |-> IF k \in DOMAIN d THEN d[k] ELSE ""]

\* C18 as stated: after any sequence of write_event calls (no file operation
\* failing), widening or not, the file holds one data line per call, in call
\* order, each read back with the values the call wrote and with the columns
\* the call did not have empty, and no value of a call is left without a
\* column.
C18_Original ==
    (log.live /\ ~log.fs_failed) =>
        /\ Len(log.rows) = Len(log_calls.sent)
        /\ \A i \in 1 .. Len(log.rows) :
              /\ DOMAIN log_calls.sent[i] \subseteq Range(log.header)
              /\ ReadDict(log.header, log.rows[i])
                     = ExpectedDict(log.header, log_calls.sent[i])

\* the last call into gpio_io was set_servo_angle
ServoCalled == gpio.live /\ gpio.call.op = "set_servo_angle"

\* C19 as stated: write_event does not raise when a file operation of the
\* call fails, at whichever step (reading or rewriting the file to widen the
\* columns, appending the row), and set_servo_angle does not raise when the
\* servo is not initialized.
C19_Original ==
    /\ (log.live /\ log_calls.op = "write_event" /\ log_calls.failed # "none") =>
          log_calls.raised = "none"
    /\ (ServoCalled /\ gpio.servo_pwm = "none") => gpio.call.raised = "none"

\* C20: angle_to_duty clamps the angle to [0, 180] and returns
\* 2.5 + (angle/180)*10.0, so every duty cycle handed to the servo lies in
\* [2.5, 12.5]; 0 gives 2.5, 90 gives 7.5, 180 gives 12.5, every angle below
\* 0 gives 2.5 and every angle above 180 gives 12.5.
C20_Holds ==
    (ServoCalled /\ gpio.servo_pwm # "none") =>
        LET a == gpio.call.angle
            d == gpio.call.duty
        IN /\ 25 * 180 <= d /\ d <= 125 * 180
           /\ a <= 0 => d = 25 * 180
           /\ a >= 180 => d = 125 * 180
           /\ a = 90 => d = 75 * 180
           /\ (0 <= a /\ a <= 180) => d = 25 * 180 + a * 100
           /\ gpio.call.raised = "none" => gpio.pwm_duty = d

\* the servo, set up, was asked for 181 degrees and got 12.5 percent
C20_Witness ==
    /\ ServoCalled
    /\ gpio.servo_pwm = "running"
    /\ gpio.call.angle = 181
    /\ gpio.call.raised = "none"
    /\ gpio.pwm_duty = 125 * 180

\* C21: whatever the first detection's x and w, inside the 640-pixel frame or
\* not, the angle update returns lies in [-90, 90]: a centre left of the frame
\* gives -90, a centre right of it gives +90.
C21_Holds ==
    (FrameDone /\ detections # << >>) =>
        /\ 0 - 90 * AngleDen <= servo_angle
        /\ servo_angle <= 90 * AngleDen
        /\ PrimaryCenter2 <= 0 => servo_angle = 0 - 90 * AngleDen
        /\ PrimaryCenter2 >= 2 * 640 => servo_angle = 90 * AngleDen

\* a frame whose first detection lies wholly left of the frame, x = -700
C21_Witness ==
    /\ FrameDone
    /\ detections # << >>
    /\ detections[1].x < 0 - 640
    /\ servo_angle = 0 - 90 * AngleDen

\* detect_hazards_classic has been called
ClassicCalled == cv.live /\ cv_call.op = "detect"

\* the elements of the list of boxes returned
BoxesReturned == {cv_call.boxes[i] : i \in 1 .. Len(cv_call.boxes)}

\* the contours found in the candidate mask
ContoursFound == {cv_call.contours[i] : i \in 1 .. Len(cv_call.contours)}

\* the contour passes the three tests of the claim
Survives(cnt) == cnt.area >= cv_call.p.min_area /\ cnt.w >= 10 /\ cnt.h >= 10

\* C22: every box returned is the bounding box of a contour with area >=
\* min_area, width >= 10 and height >= 10; a contour failing one of the three
\* tests is not emitted; with no surviving contour the call returns the empty
\* list and raises nothing.
C22_Holds ==
    ClassicCalled =>
        /\ cv_call.raised = "none"
        /\ \A box \in BoxesReturned :
              \E cnt \in ContoursFound : BoxOf(cnt) = box /\ Survives(cnt)
        /\ \A cnt \in ContoursFound : ~Survives(cnt) => BoxOf(cnt) \notin BoxesReturned
        /\ (\A cnt \in ContoursFound : ~Survives(cnt)) => cv_call.boxes = << >>
        /\ Len(cv_call.boxes) = Cardinality({cnt \in ContoursFound : Survives(cnt)})

\* a call that finds two contours, emits the box of one and drops the other
C22_Witness ==
    /\ ClassicCalled
    /\ Len(cv_call.contours) = 2
    /\ Len(cv_call.boxes) = 1
    /\ \E cnt \in ContoursFound : cnt.w < 10 /\ BoxOf(cnt) \notin BoxesReturned

\* C23 as stated: every pixel set in the candidate mask is set in the dilated
\* edge map and not set in the line mask.
C23_Original ==
    ClassicCalled =>
        \A c \in cv_call.non_line :
            c \in cv_call.dilated_edges /\ c \notin cv_call.line_mask

IsResetStep == Exists(ds) /\ ds_ret' = "none"

\* C26: reset() without a new state keeps the current state and sets both
\* counters to 0; reset with a value that is neither SAFE nor HAZARD raises
\* ValueError and leaves the state and both counters as they were.
C26_Holds ==
    [][IsResetStep =>
          /\ (ds_error' = "none" /\ ds_base'.how = "reset_keep") =>
                /\ ds'.current_state = ds.current_state
                /\ ds'.hazard_counter = 0
                /\ ds'.safe_counter = 0
          /\ ds_error' = "ValueError" =>
                /\ ds'.current_state = ds.current_state
                /\ ds'.hazard_counter = ds.hazard_counter
                /\ ds'.safe_counter = ds.safe_counter
          /\ ds_error' \in {"none", "ValueError"}]_vars

\* a rejected reset on a machine in HAZARD whose safe counter is running
C26_Witness ==
    /\ Exists(ds)
    /\ ds_error = "ValueError"
    /\ ds_ret = "none"
    /\ ds.current_state = "HAZARD"
    /\ ds.safe_counter >= 2

\* both machines exist and have been handed the same frames
TwinsFed == state_machine.current_state \in States /\ Exists(ds) /\ pc = "off"
            /\ updates >= 1

SparseSampling ==
    /\ pc # "off"
    /\ args.detector = "yolo"
    /\ args.yolo_every >= 2
    /\ state_machine.current_state \in States
    /\ state_machine.debounce_frames = DefaultDebounce

\* C28: in the main loop with the learned detector, yolo_every >= 2 and the
\* default debounce of 3 frames, no two consecutive frames carry detections:
\* a frame with detections follows a frame without, hazard_count never
\* exceeds 1, and the state reported and logged is SAFE on every frame,
\* whatever the model detects on the sampled frames.
C28_Holds ==
    SparseSampling =>
        /\ state_machine.hazard_count <= 1
        /\ state_machine.current_state = "SAFE"
        /\ updates >= 1 => state = "SAFE"
        /\ (pc = "update" /\ Len(detections) > 0) =>
              state_machine.hazard_count = 0

\* period 2: the model reported a hazard on frame 4 (and was asked on frame
\* 2); the state machine has counted one frame and stays SAFE
C28_Witness ==
    /\ SparseSampling
    /\ args.yolo_every = 2
    /\ frame_count = 4
    /\ detector_frames = {2, 4}
    /\ pc = "display"
    /\ Len(detections) > 0
    /\ state_machine.hazard_count = 1
    /\ state = "SAFE"

\* the last call on the VideoSource was read(), start()
ReadCalled == cam.live /\ cam_call.op = "read"
StartCalled == cam.live /\ cam_call.op = "start"

\* a read() of a source that is not running: (False, None), no backend touched
IdleRead ==
    (ReadCalled /\ ~cam_call.was_running) =>
        /\ cam_call.ret = [ok |-> FALSE, frame |-> "None"]
        /\ cam_call.touched = {}
        /\ cam_call.raised = "none"

\* the source is not running after the constructor and after release(), and
\* a read() first after either (the loop of process_video) gets no frame
IdleAfter ==
    /\ (cam.live /\ cam_call.op \in {"new", "release"}) => ~cam.is_running
    /\ (ReadCalled /\ cam_call.prev.op \in {"new", "release"}) =>
          (~cam_call.was_running /\ ~cam_call.ret.ok)

\* only start() sets the source running; read() changes nothing; start() on
\* a running source changes nothing
RunningSteps ==
    /\ (cam.live /\ ~cam.is_running /\ cam'.live /\ cam'.is_running) =>
          (cam_call'.op = "start" /\ cam_call'.raised = "none")
    /\ (cam.live /\ cam_call'.op = "read") => cam' = cam
    /\ (cam.live /\ cam.is_running /\ cam_call'.op = "start") =>
          (cam' = cam /\ cam_call'.touched = {} /\ cam_call'.raised = "none")

Bound(c) == (IF c.picam # "none" THEN {"picam"} ELSE {})
                \cup (IF c.capture THEN {"capture"} ELSE {})

\* C30 as stated: after a constructor call that returns normally exactly one
\* backend is bound, never both; start() and read() use only a backend whose
\* initialization fully succeeded (a Pi camera that was configured, a capture
\* that opened); a source whose Pi camera failed during initialization goes
\* to the capture alone, like one constructed with use_picamera=False.
C30_Original ==
    cam.live =>
        /\ Cardinality(Bound(cam)) = 1
        /\ cam_call.op \in {"start", "read"} =>
              /\ "picam" \in cam_call.touched => cam.picam = "configured"
              /\ "capture" \in cam_call.touched => cam.capture
              /\ cam.capture => "picam" \notin cam_call.touched

====
